---------------------------- MODULE Spec2Model ----------------------------
(***************************************************************************)
(* A model of extool (src/extool.py): the canonical-name computation       *)
(* (slugify, get_model, get_date, get_prefix, generate_name,               *)
(* check_for_live), the rename loop (rename) and the per-file pipeline of  *)
(* a Renamer worker (run, process_file, get_metadata) fed by process_dir.  *)
(*                                                                         *)
(* Python strings are sequences of one-character strings, so that          *)
(* startswith, split, strip, replace, format and glob matching are         *)
(* computed as the code computes them.                                     *)
(***************************************************************************)
EXTENDS Integers, Sequences, FiniteSets, TLC

(***************************************************************************)
(* Python values: an optional string, or an exception being raised.        *)
(***************************************************************************)
None == [ok |-> FALSE, exc |-> "", v |-> <<>>]

Some(s) == [ok |-> TRUE, exc |-> "", v |-> s]

Raised(e) == [ok |-> FALSE, exc |-> e, v |-> <<>>]

\* Python truth value of an optional string: None and '' are false.
Truthy(o) == o.ok /\ o.v # <<>>

\* '{}'.format(x): a string as it is, None as the text 'None'.
Format(o) == IF o.ok THEN o.v ELSE <<"N", "o", "n", "e">>

\* dict.get(tag): the value, or None when the tag is absent.
DictGet(exif, tag) == IF tag \in DOMAIN exif THEN Some(exif[tag]) ELSE None

(***************************************************************************)
(* String functions of the Python library used by the code.                *)
(***************************************************************************)
Digits == {"0", "1", "2", "3", "4", "5", "6", "7", "8", "9"}

Whitespace == {" ", "\t", "\n", "\r", "\f"}

DigitChars == <<"0", "1", "2", "3", "4", "5", "6", "7", "8", "9">>

StartsWith(s, p) == Len(s) >= Len(p) /\ SubSeq(s, 1, Len(p)) = p

EndsWith(s, p) == Len(s) >= Len(p) /\ SubSeq(s, Len(s) - Len(p) + 1, Len(s)) = p

\* s.index(c): the first position of c in s, 0 when there is none.
IndexOf(s, c) ==
    IF \E i \in 1..Len(s) : s[i] = c
    THEN CHOOSE i \in 1..Len(s) : s[i] = c /\ \A j \in 1..(i - 1) : s[j] # c
    ELSE 0

\* The last position of c in s, 0 when there is none.
LastIndexOf(s, c) ==
    IF \E i \in 1..Len(s) : s[i] = c
    THEN CHOOSE i \in 1..Len(s) : s[i] = c /\ \A j \in (i + 1)..Len(s) : s[j] # c
    ELSE 0

\* s.split(c)[0]
SplitFirst(s, c) == IF IndexOf(s, c) = 0 THEN s ELSE SubSeq(s, 1, IndexOf(s, c) - 1)

\* s.replace(a, b)
ReplaceAll(s, a, b) == [i \in 1..Len(s) |-> IF s[i] = a THEN b ELSE s[i]]

\* s.replace(a, b, n): the first n occurrences only.
ReplaceFirst(s, a, b, n) ==
    [i \in 1..Len(s) |->
        IF s[i] = a /\ Cardinality({j \in 1..(i - 1) : s[j] = a}) < n
        THEN b ELSE s[i]]

\* s.strip()
Strip(s) ==
    LET keep == {i \in 1..Len(s) : s[i] \notin Whitespace}
    IN  IF keep = {} THEN <<>>
        ELSE SubSeq(s, CHOOSE i \in keep : \A j \in keep : i <= j,
                       CHOOSE i \in keep : \A j \in keep : i >= j)

\* "{}".format(n) for a natural number n.
RECURSIVE Decimal(_)
Decimal(n) == IF n < 10 THEN <<DigitChars[n + 1]>>
              ELSE Decimal(n \div 10) \o <<DigitChars[(n % 10) + 1]>>

(***************************************************************************)
(* String constants of the code.                                           *)
(***************************************************************************)
IMG == <<"I", "M", "G">>

VID == <<"V", "I", "D">>

MOV == <<"M", "O", "V">>

JPG == <<"J", "P", "G">>

noEXIF == <<"n", "o", "E", "X", "I", "F">>

image == <<"i", "m", "a", "g", "e">>

video == <<"v", "i", "d", "e", "o">>

ABBREVIATIONS == (image :> IMG) @@ (video :> VID)

(***************************************************************************)
(* slugify and get_model                                                   *)
(***************************************************************************)
slugify(string) ==
    IF Truthy(string) THEN ReplaceAll(Strip(string.v), " ", "-") ELSE noEXIF

ModelTags == <<"EXIF:Model", "QuickTime:Model">>

\* The loop of get_model from its i-th tag on; ret is the value of the tag before.
RECURSIVE get_model_loop(_, _, _)
get_model_loop(exif, i, ret) ==
    IF i > Len(ModelTags) THEN ret
    ELSE LET got == DictGet(exif, ModelTags[i])
         IN  IF Truthy(got) THEN got ELSE get_model_loop(exif, i + 1, got)

get_model(exif) == slugify(get_model_loop(exif, 1, None))

(***************************************************************************)
(* get_date: dateutil's parser.parse and datetime.strftime on the two      *)
(* layouts the code names, after the first two ':' were replaced by '/':   *)
(*   YYYY/MM/DD HH:MM:SS   and   YYYY/MM/DD HH:MM:SS+HH:MM  (or -HH:MM).   *)
(* Any other text is taken as unparseable (ValueError).                    *)
(***************************************************************************)
DateTags == <<"EXIF:DateTimeOriginal", "QuickTime:CreationDate",
              "QuickTime:MediaCreateDate", "File:FileModifyDate">>

Parseable(s) ==
    /\ Len(s) \in {19, 25}
    /\ \A i \in {1, 2, 3, 4, 6, 7, 9, 10, 12, 13, 15, 16, 18, 19} : s[i] \in Digits
    /\ s[5] = "/" /\ s[8] = "/" /\ s[11] = " " /\ s[14] = ":" /\ s[17] = ":"
    /\ Len(s) = 25 =>
          /\ s[20] \in {"+", "-"}
          /\ \A i \in {21, 22, 24, 25} : s[i] \in Digits
          /\ s[23] = ":"

\* dttm.strftime("%Y%m%dT%H%M%S%z") of the parsed text s.
Strftime(s) ==
    SubSeq(s, 1, 4) \o SubSeq(s, 6, 7) \o SubSeq(s, 9, 10) \o <<"T">>
        \o SubSeq(s, 12, 13) \o SubSeq(s, 15, 16) \o SubSeq(s, 18, 19)
        \o (IF Len(s) = 25 THEN SubSeq(s, 20, 22) \o SubSeq(s, 24, 25) ELSE <<>>)

\* A mutant of get_date_loop: a value that begins with '0000' is not skipped.
RECURSIVE get_date_loop_keeps_sentinel(_, _)
get_date_loop_keeps_sentinel(exif, i) ==
    IF i > Len(DateTags) THEN None
    ELSE LET dttm_str == DictGet(exif, DateTags[i])
         IN  IF ~Truthy(dttm_str)
             THEN get_date_loop_keeps_sentinel(exif, i + 1)
             ELSE LET replaced == ReplaceFirst(dttm_str.v, ":", "/", 2)
                  IN  IF Parseable(replaced) THEN Some(Strftime(replaced))
                      ELSE Raised("ValueError")

\* The loop of get_date from its i-th tag on.
RECURSIVE get_date_loop(_, _)
get_date_loop(exif, i) ==
    IF i > Len(DateTags) THEN None
    ELSE LET dttm_str == DictGet(exif, DateTags[i])
         IN  IF ~Truthy(dttm_str) \/ StartsWith(dttm_str.v, <<"0", "0", "0", "0">>)
             THEN get_date_loop(exif, i + 1)
             ELSE LET replaced == ReplaceFirst(dttm_str.v, ":", "/", 2)
                  IN  IF Parseable(replaced) THEN Some(Strftime(replaced))
                      ELSE Raised("ValueError")

get_date(exif) == get_date_loop(exif, 1)

(***************************************************************************)
(* get_prefix                                                              *)
(***************************************************************************)
\* A mutant of get_prefix: the test process_file applies (startswith) in place of
\* the table lookup of the part before '/'.
get_prefix_startswith(exif) ==
    LET mime == DictGet(exif, "File:MIMEType")
    IN  IF Truthy(mime) /\ StartsWith(mime.v, image) THEN Some(IMG)
        ELSE IF Truthy(mime) /\ StartsWith(mime.v, video) THEN Some(VID)
        ELSE None

get_prefix(exif) ==
    LET mime == DictGet(exif, "File:MIMEType")
    IN  IF Truthy(mime) /\ SplitFirst(mime.v, "/") \in DOMAIN ABBREVIATIONS
        THEN Some(ABBREVIATIONS[SplitFirst(mime.v, "/")])
        ELSE None

(***************************************************************************)
(* check_for_live.  ls is what glob.glob sees: the names of the entries of *)
(* the process's working directory (the pattern is a relative one).        *)
(***************************************************************************)
\* fnmatch of name against  <head>*<tail>
GlobMatch(name, head, tail) ==
    /\ Len(name) >= Len(head) + Len(tail)
    /\ StartsWith(name, head)
    /\ EndsWith(name, tail)

\* os.path.splitext(name)[0]
SplitextRoot(name) ==
    LET dot == LastIndexOf(name, ".")
    IN  IF dot <= 1 THEN name ELSE SubSeq(name, 1, dot - 1)

\* A mutant of check_for_live: the counterpart is looked up for every extension.
check_for_live_any_ext(date, conflict, ext, ls) ==
    IF ~date.ok THEN Raised("TypeError")
    ELSE LET chopped  == IF IndexOf(date.v, "+") > 0
                         THEN SubSeq(date.v, 1, IndexOf(date.v, "+") - 1)
                         ELSE date.v
             suspects == {n \in ls : GlobMatch(n, IMG \o <<"_">> \o chopped \o conflict \o <<"_">>,
                                               <<".">> \o JPG)}
         IN  IF Cardinality(suspects) # 1 THEN None
             ELSE Some(SplitextRoot(CHOOSE n \in suspects : TRUE) \o <<".">> \o Format(ext))

check_for_live(date, conflict, ext, ls) ==
    IF ext = Some(MOV)
    THEN IF ~date.ok THEN Raised("TypeError")     \* '+' in None
         ELSE LET chopped  == IF IndexOf(date.v, "+") > 0
                              THEN SubSeq(date.v, 1, IndexOf(date.v, "+") - 1)
                              ELSE date.v
                  suspects == {n \in ls : GlobMatch(n, IMG \o <<"_">> \o chopped \o conflict \o <<"_">>,
                                                    <<".">> \o JPG)}
              IN  IF suspects = {} THEN None
                  ELSE IF Cardinality(suspects) > 1 THEN None
                  ELSE Some(SplitextRoot(CHOOSE n \in suspects : TRUE) \o <<".">> \o ext.v)
    ELSE None

(***************************************************************************)
(* generate_name: Some(name), None, or the exception it raises.            *)
(***************************************************************************)
generate_name(exif, retry, ls) ==
    LET prefix == get_prefix(exif)
        ext    == DictGet(exif, "File:FileTypeExtension")
    IN  IF ~prefix.ok THEN None
        ELSE LET date == get_date(exif)
             IN  IF date.exc # "" THEN date
                 ELSE LET conflict == IF retry = 0 THEN <<>> ELSE <<"-">> \o Decimal(retry)
                          model    == get_model(exif)
                          live_counterpart == check_for_live(date, conflict, ext, ls)
                      IN  IF live_counterpart.exc # "" THEN live_counterpart
                          ELSE IF Truthy(live_counterpart) THEN live_counterpart
                          ELSE Some(prefix.v \o <<"_">> \o Format(date) \o conflict
                                      \o <<"_">> \o model \o <<".">> \o Format(ext))

(***************************************************************************)
(* The filesystem.  A path is a directory and a name in it; a file is its  *)
(* bytes (an identifier of the content) and the two fields of its          *)
(* os.stat() signature that can differ between regular files.              *)
(***************************************************************************)
CWD == <<".">>

SUB == <<".", "/", "s">>

\* The directories that exist; the program creates none.
ExistingDirs == {CWD, SUB}

Path(dir, name) == [dir |-> dir, name |-> name]

\* os.path.join(dir, name), kept as (directory, last component).
JoinPath(dir, name) ==
    LET cut  == LastIndexOf(name, "/")
        base == IF StartsWith(name, <<"/">>) THEN <<>> ELSE dir \o <<"/">>
    IN  IF cut = 0 THEN Path(dir, name)
        ELSE Path(base \o SubSeq(name, 1, cut - 1), SubSeq(name, cut + 1, Len(name)))

\* What glob.glob of a relative pattern lists: the names in the working directory.
Listing(f, dir) == {p.name : p \in {q \in DOMAIN f : q.dir = dir}}

\* A mutant of filecmp_cmp: the os.stat() signatures alone decide, the bytes are never read.
filecmp_cmp_signature_only(f1, f2) == f1.size = f2.size /\ f1.mtime = f2.mtime

\* filecmp.cmp(f1, f2) with its default shallow=True: equal os.stat()
\* signatures are taken as equal files; otherwise sizes, then bytes, decide.
filecmp_cmp(f1, f2) ==
    IF f1.size = f2.size /\ f1.mtime = f2.mtime THEN TRUE
    ELSE IF f1.size # f2.size THEN FALSE
    ELSE f1.bytes = f2.bytes

\* os.rename(from, to) on f: the entry moves; an existing target is replaced.
os_rename(f, from, to) ==
    [p \in (DOMAIN f \ {from}) \cup {to} |-> IF p = to THEN f[from] ELSE f[p]]

\* os.rename raises OSError when the target's directory does not exist.
os_rename_fails(f, from, to) == from \notin DOMAIN f \/ to.dir \notin ExistingDirs

(***************************************************************************)
(* The files of the model and what the metadata extractor reports for them *)
(***************************************************************************)
Date0 == <<"2", "0", "1", "6", ":", "1", "2", ":", "1", "1", " ",
           "1", "3", ":", "3", "4", ":", "3", "3">>

Zone0 == <<"+", "1", "3", ":", "0", "0">>

Date1 == <<"2", "0", "1", "7", ":", "0", "1", ":", "0", "2", " ",
           "0", "3", ":", "0", "4", ":", "0", "5">>

\* A photo: capture time without offset, camera model with a space.
RecPhoto ==
    ("File:MIMEType" :> image \o <<"/", "j", "p", "e", "g">>)
    @@ ("File:FileTypeExtension" :> JPG)
    @@ ("EXIF:DateTimeOriginal" :> Date0)
    @@ ("EXIF:Model" :> <<"i", " ", "6">>)
    @@ ("File:FileModifyDate" :> Date1 \o Zone0)

\* The video of a live photo taken at the same second: its date has an offset.
RecLive ==
    ("File:MIMEType" :> video \o <<"/", "q", "u", "i", "c", "k", "t", "i", "m", "e">>)
    @@ ("File:FileTypeExtension" :> MOV)
    @@ ("QuickTime:CreationDate" :> Date0 \o Zone0)
    @@ ("QuickTime:Model" :> <<"i", " ", "6">>)
    @@ ("File:FileModifyDate" :> Date1 \o Zone0)

\* Not a media file.
RecPdf ==
    ("File:MIMEType" :> <<"a", "p", "p", "l", "i", "c", "a", "t", "i", "o", "n", "/", "p", "d", "f">>)
    @@ ("File:FileTypeExtension" :> <<"P", "D", "F">>)
    @@ ("File:FileModifyDate" :> Date1 \o Zone0)

\* A file whose MIME type begins with 'image' and is of another top-level type.
RecOddType ==
    ("File:MIMEType" :> image \o <<"s", "/", "x">>)
    @@ ("File:FileTypeExtension" :> JPG)
    @@ ("File:FileModifyDate" :> Date1 \o Zone0)

\* A photo whose capture time is not a date.
RecBadDate ==
    ("File:MIMEType" :> image \o <<"/", "j", "p", "e", "g">>)
    @@ ("File:FileTypeExtension" :> JPG)
    @@ ("EXIF:DateTimeOriginal" :> <<"n", "o", "t", " ", "a", " ", "d", "a", "t", "e">>)

\* A photo for which the extractor reports no date tag and no model.
RecNoDate ==
    ("File:MIMEType" :> image \o <<"/", "j", "p", "e", "g">>)
    @@ ("File:FileTypeExtension" :> JPG)
    @@ ("EXIF:DateTimeOriginal" :> <<"0", "0", "0", "0", ":", "0", "0", ":", "0", "0", " ",
                                     "0", "0", ":", "0", "0", ":", "0", "0">>)

\* A photo whose camera model holds a path separator.
RecSlash ==
    ("File:MIMEType" :> image \o <<"/", "j", "p", "e", "g">>)
    @@ ("File:FileTypeExtension" :> JPG)
    @@ ("EXIF:DateTimeOriginal" :> Date1)
    @@ ("EXIF:Model" :> <<"i", "/", "6">>)

File(bytes, size, mtime) == [bytes |-> bytes, size |-> size, mtime |-> mtime]

Photo1 == File(1, 10, 1)

\* A later copy of Photo1: the same bytes, another modification time.
Photo1Copy == File(1, 10, 2)

\* Another photo of the same second and camera, of another size.
Photo2 == File(2, 11, 1)

\* Another photo of the same second and camera, of the size and mtime of Photo1.
Photo3 == File(3, 10, 1)

Live1 == File(4, 20, 1)

Pdf == File(5, 30, 1)

BadDate == File(6, 12, 1)

NoDate == File(7, 13, 1)

Unreadable == File(8, 14, 1)

Slash == File(9, 15, 1)

OddType == File(10, 16, 1)

\* Further photos of the same second and camera: bytes 100 + r, each of its own size.
Burst(r) == File(100 + r, 100 + r, 1)

\* What the extractor returns for a file: its record, or the error it raises.
Extract(file) ==
    CASE file.bytes \in {1, 2, 3} -> [exc |-> "", rec |-> RecPhoto]
      [] file.bytes = 4           -> [exc |-> "", rec |-> RecLive]
      [] file.bytes = 5           -> [exc |-> "", rec |-> RecPdf]
      [] file.bytes = 6           -> [exc |-> "", rec |-> RecBadDate]
      [] file.bytes = 7           -> [exc |-> "", rec |-> RecNoDate]
      [] file.bytes = 8           -> [exc |-> "ValueError", rec |-> RecPdf]
      [] file.bytes = 9           -> [exc |-> "", rec |-> RecSlash]
      [] file.bytes = 10          -> [exc |-> "", rec |-> RecOddType]
      [] OTHER                    -> [exc |-> "", rec |-> RecPhoto]

(***************************************************************************)
(* Program constants                                                       *)
(***************************************************************************)
\* rename(file_from, exif, max_rename=20)
max_rename == 20

\* ClosableQueue.SENTINEL: an object that is no file name.
SENTINEL == Path(<<>>, <<>>)

\* The local variables of a worker that holds no file.
NoMeta == ("unset" :> <<>>)

NoPath == Path(<<>>, <<"-">>)

\* No call of generate_name on its own is modelled.
NoCall == [exif |-> NoMeta, retry |-> 0, ls |-> {}]

NoResult == [here |-> Raised("unset"), elsewhere |-> Raised("unset")]

(***************************************************************************)
(* Bounds of the model                                                     *)
(***************************************************************************)
\* How many times the program is run over the directory.
MaxPass == 2

\* Directories of at most this many files are walked in every order.
MaxShuffle == 2

\* The threads of the pool (MAX_THREADS of the code is 4).
PoolSize == 2

VARIABLES
    fs,            \* the filesystem: path -> file
    fast_exif,     \* the exiftool module was imported (a shared handle and a lock)
    pass,          \* which run of the program over the directory this is
    main,          \* where process_dir is
    queue,         \* file_queue
    pending,       \* what process_dir has still to put on file_queue, one item at a time
    unfinished,    \* file_queue's count of unfinished tasks
    exception_q,   \* exception_q
    stderr,        \* what process_dir wrote about the errors
    lock,          \* exiftool_lock: the worker holding it, or 0
    pc,            \* where each Renamer thread is
    filename,      \* the item a worker took from the queue
    md,            \* process_file's md / rename's exif
    retry_count,   \* rename's retry_count
    renamed,       \* rename's renamed
    file_to,       \* rename's file_to
    listed,        \* history: the filesystem when process_dir walked it
    fs0,           \* history: the filesystem when the worker's rename() was called
    iters,         \* history: iterations of rename's loop begun by the worker
    moves,         \* history: the os.rename calls that succeeded
    log,           \* history: how each process_file call ended
    call,          \* the arguments of a call of generate_name on its own
    result         \* what that call returned

vars == <<fs, fast_exif, pass, main, queue, pending, unfinished, exception_q, stderr, lock,
          pc, filename, md, retry_count, renamed, file_to, listed, fs0, iters,
          moves, log, call, result>>

env == <<fast_exif, pass, listed, pending, call, result>>

locals == <<md, retry_count, renamed, file_to, fs0, iters>>

Workers == DOMAIN pc

(***************************************************************************)
(* Renamer.run: the loop over the queue (ClosableQueue.__iter__), with the *)
(* handler that puts what process_file raises on the exception queue.      *)
(***************************************************************************)
Entry(w, how) == [pass |-> pass, file |-> filename[w], result |-> how,
                     to |-> file_to[w], retry |-> retry_count[w]]

\* A mutant of Catch: the exception is put on the exception queue and the
\* thread ends, without the task_done of the item it holds.
Catch_dies(w, e) ==
    /\ exception_q' = Append(exception_q, [exc |-> e, file |-> filename[w]])
    /\ log' = Append(log, Entry(w, "raised"))
    /\ pc' = [pc EXCEPT ![w] = "exit"]

\* except Exception as e: self.exception_q.put(e); then the finally of __iter__ is next.
Catch(w, e) ==
    /\ exception_q' = Append(exception_q, [exc |-> e, file |-> filename[w]])
    /\ log' = Append(log, Entry(w, "raised"))
    /\ pc' = [pc EXCEPT ![w] = "task_done"]

\* item = self.get()
QueueGet(w) ==
    /\ pc[w] = "get"
    /\ queue # <<>>
    /\ queue' = Tail(queue)
    /\ filename' = [filename EXCEPT ![w] = Head(queue)]
    /\ pc' = [pc EXCEPT ![w] = IF Head(queue) = SENTINEL THEN "task_done" ELSE "get_metadata"]
    /\ UNCHANGED <<fs, env, main, unfinished, exception_q, stderr, lock, locals, moves, log>>

\* A mutant of TaskDone: task_done is not called for the sentinel.
TaskDone_not_for_sentinel(w) ==
    /\ pc[w] = "task_done"
    /\ unfinished' = IF filename[w] = SENTINEL THEN unfinished ELSE unfinished - 1
    /\ pc' = [pc EXCEPT ![w] = IF filename[w] = SENTINEL THEN "exit" ELSE "get"]
    /\ filename' = [filename EXCEPT ![w] = NoPath]
    /\ md' = [md EXCEPT ![w] = NoMeta]
    /\ retry_count' = [retry_count EXCEPT ![w] = 0]
    /\ renamed' = [renamed EXCEPT ![w] = FALSE]
    /\ file_to' = [file_to EXCEPT ![w] = NoPath]
    /\ iters' = [iters EXCEPT ![w] = 0]
    /\ UNCHANGED <<fs, env, main, queue, exception_q, stderr, lock, fs0, moves, log>>

\* finally: self.task_done(); after the sentinel the generator returns and run ends.
TaskDone(w) ==
    /\ pc[w] = "task_done"
    /\ unfinished' = unfinished - 1
    /\ pc' = [pc EXCEPT ![w] = IF filename[w] = SENTINEL THEN "exit" ELSE "get"]
    /\ filename' = [filename EXCEPT ![w] = NoPath]
    /\ md' = [md EXCEPT ![w] = NoMeta]
    /\ retry_count' = [retry_count EXCEPT ![w] = 0]
    /\ renamed' = [renamed EXCEPT ![w] = FALSE]
    /\ file_to' = [file_to EXCEPT ![w] = NoPath]
    /\ iters' = [iters EXCEPT ![w] = 0]
    /\ UNCHANGED <<fs, env, main, queue, exception_q, stderr, lock, fs0, moves, log>>

(***************************************************************************)
(* Renamer.get_metadata                                                    *)
(***************************************************************************)
\* with self.lock:
LockAcquire(w) ==
    /\ pc[w] = "get_metadata"
    /\ fast_exif
    /\ lock = 0
    /\ lock' = w
    /\ pc' = [pc EXCEPT ![w] = "exiftool"]
    /\ UNCHANGED <<fs, env, main, queue, unfinished, exception_q, stderr, filename, locals,
                   moves, log>>

\* A mutant of ExiftoolCall: the lock is not released when the call raises.
ExiftoolCall_keeps_lock(w) ==
    /\ pc[w] = "exiftool"
    /\ lock = w
    /\ LET got == Extract(fs[filename[w]])
       IN  IF got.exc # ""
           THEN /\ Catch(w, got.exc)
                /\ UNCHANGED <<md, lock>>
           ELSE /\ md' = [md EXCEPT ![w] = got.rec]
                /\ lock' = 0
                /\ pc' = [pc EXCEPT ![w] = "process_file"]
                /\ UNCHANGED <<exception_q, log>>
    /\ UNCHANGED <<fs, env, main, queue, unfinished, stderr, filename,
                   retry_count, renamed, file_to, fs0, iters, moves>>

\* meta = self.exiftool_handle.get_metadata(filename); the with block releases
\* the lock on return and on an exception alike.
ExiftoolCall(w) ==
    /\ pc[w] = "exiftool"
    /\ lock = w
    /\ lock' = 0
    /\ LET got == Extract(fs[filename[w]])
       IN  IF got.exc # ""
           THEN /\ Catch(w, got.exc)
                /\ UNCHANGED md
           ELSE /\ md' = [md EXCEPT ![w] = got.rec]
                /\ pc' = [pc EXCEPT ![w] = "process_file"]
                /\ UNCHANGED <<exception_q, log>>
    /\ UNCHANGED <<fs, env, main, queue, unfinished, stderr, filename,
                   retry_count, renamed, file_to, fs0, iters, moves>>

\* meta = pyexifinfo.get_json(filename)[0]; a ValueError is passed over and
\* return meta then finds no meta (UnboundLocalError).
PyexifinfoCall(w) ==
    /\ pc[w] = "get_metadata"
    /\ ~fast_exif
    /\ LET got == Extract(fs[filename[w]])
       IN  IF got.exc # ""
           THEN /\ Catch(w, IF got.exc = "ValueError" THEN "UnboundLocalError" ELSE got.exc)
                /\ UNCHANGED md
           ELSE /\ md' = [md EXCEPT ![w] = got.rec]
                /\ pc' = [pc EXCEPT ![w] = "process_file"]
                /\ UNCHANGED <<exception_q, log>>
    /\ UNCHANGED <<fs, env, main, queue, unfinished, stderr, lock, filename,
                   retry_count, renamed, file_to, fs0, iters, moves>>

(***************************************************************************)
(* Renamer.process_file, after get_metadata: the MIME filter, then the     *)
(* call of rename (its retry_count = 0, renamed = False).                  *)
(***************************************************************************)
Unknown == <<"U", "n", "k", "n", "o", "w", "n">>

MimeOf(exif) == IF "File:MIMEType" \in DOMAIN exif THEN exif["File:MIMEType"] ELSE Unknown

ProcessFile(w) ==
    /\ pc[w] = "process_file"
    /\ IF ~(StartsWith(MimeOf(md[w]), image) \/ StartsWith(MimeOf(md[w]), video))
       THEN /\ pc' = [pc EXCEPT ![w] = "task_done"]
            /\ log' = Append(log, Entry(w, "skipped"))
            /\ UNCHANGED <<retry_count, renamed, fs0, iters>>
       ELSE /\ pc' = [pc EXCEPT ![w] = "generate_name"]
            /\ retry_count' = [retry_count EXCEPT ![w] = 0]
            /\ renamed' = [renamed EXCEPT ![w] = FALSE]
            /\ fs0' = [fs0 EXCEPT ![w] = fs]
            /\ iters' = [iters EXCEPT ![w] = 0]
            /\ UNCHANGED log
    /\ UNCHANGED <<fs, env, main, queue, unfinished, exception_q, stderr, lock,
                   filename, md, file_to, moves>>

(***************************************************************************)
(* rename: one iteration of its loop is GenerateName, then Exists, then    *)
(* Cmp (the target being there) or OsRename (the target being free).       *)
(***************************************************************************)
\* A mutant of GenerateName: the disambiguator also counts the renames done
\* before in this run.
GenerateName_counts_moves(w) ==
    /\ pc[w] = "generate_name"
    /\ iters' = [iters EXCEPT ![w] = @ + 1]
    /\ \E name \in {generate_name(md[w],
                                   retry_count[w]
                                     + Cardinality({i \in DOMAIN moves : moves[i].pass = pass}),
                                   Listing(fs, CWD))} :
           IF name.exc # ""
           THEN /\ Catch(w, name.exc)
                /\ UNCHANGED file_to
           ELSE IF ~name.ok
           THEN /\ Catch(w, "AttributeError")
                /\ UNCHANGED file_to
           ELSE /\ file_to' = [file_to EXCEPT ![w] = JoinPath(filename[w].dir, name.v)]
                /\ pc' = [pc EXCEPT ![w] = "exists"]
                /\ UNCHANGED <<exception_q, log>>
    /\ UNCHANGED <<fs, env, main, queue, unfinished, stderr, lock, filename, md,
                   retry_count, renamed, fs0, moves>>

\* file_to = os.path.join(os.path.dirname(file_from), generate_name(exif, retry_count))
\* os.path.join raises on a name that is None.
GenerateName(w) ==
    /\ pc[w] = "generate_name"
    /\ iters' = [iters EXCEPT ![w] = @ + 1]
    /\ \E name \in {generate_name(md[w], retry_count[w], Listing(fs, CWD))} :
           IF name.exc # ""
           THEN /\ Catch(w, name.exc)
                /\ UNCHANGED file_to
           ELSE IF ~name.ok
           THEN /\ Catch(w, "AttributeError")
                /\ UNCHANGED file_to
           ELSE /\ file_to' = [file_to EXCEPT ![w] = JoinPath(filename[w].dir, name.v)]
                /\ pc' = [pc EXCEPT ![w] = "exists"]
                /\ UNCHANGED <<exception_q, log>>
    /\ UNCHANGED <<fs, env, main, queue, unfinished, stderr, lock, filename, md,
                   retry_count, renamed, fs0, moves>>

\* if os.path.exists(file_to):
Exists(w) ==
    /\ pc[w] = "exists"
    /\ pc' = [pc EXCEPT ![w] = IF file_to[w] \in DOMAIN fs THEN "cmp" ELSE "os_rename"]
    /\ UNCHANGED <<fs, env, main, queue, unfinished, exception_q, stderr, lock,
                   filename, locals, moves, log>>

\* A mutant of Cmp: the loop is not left when the retries are used up.
Cmp_no_break(w) ==
    /\ pc[w] = "cmp"
    /\ IF filename[w] \notin DOMAIN fs \/ file_to[w] \notin DOMAIN fs
       THEN /\ Catch(w, "OSError")
            /\ UNCHANGED <<retry_count, renamed>>
       ELSE /\ IF filecmp_cmp(fs[filename[w]], fs[file_to[w]])
               THEN /\ renamed' = [renamed EXCEPT ![w] = TRUE]
                    /\ pc' = [pc EXCEPT ![w] = "return"]
                    /\ UNCHANGED retry_count
               ELSE /\ retry_count' = [retry_count EXCEPT ![w] = @ + 1]
                    /\ pc' = [pc EXCEPT ![w] = "generate_name"]
                    /\ UNCHANGED renamed
            /\ UNCHANGED <<exception_q, log>>
    /\ UNCHANGED <<fs, env, main, queue, unfinished, stderr, lock,
                   filename, md, file_to, fs0, iters, moves>>

\* if filecmp.cmp(file_from, file_to): renamed = True
\* else: if retry_count > max_rename: break; retry_count += 1
\* filecmp.cmp raises OSError (os.stat) when one of the two paths is gone.
Cmp(w) ==
    /\ pc[w] = "cmp"
    /\ IF filename[w] \notin DOMAIN fs \/ file_to[w] \notin DOMAIN fs
       THEN /\ Catch(w, "OSError")
            /\ UNCHANGED <<retry_count, renamed>>
       ELSE /\ IF filecmp_cmp(fs[filename[w]], fs[file_to[w]])
               THEN /\ renamed' = [renamed EXCEPT ![w] = TRUE]
                    /\ pc' = [pc EXCEPT ![w] = "return"]
                    /\ UNCHANGED retry_count
               ELSE IF retry_count[w] > max_rename
               THEN /\ pc' = [pc EXCEPT ![w] = "return"]
                    /\ UNCHANGED <<retry_count, renamed>>
               ELSE /\ retry_count' = [retry_count EXCEPT ![w] = @ + 1]
                    /\ pc' = [pc EXCEPT ![w] = "generate_name"]
                    /\ UNCHANGED renamed
            /\ UNCHANGED <<exception_q, log>>
    /\ UNCHANGED <<fs, env, main, queue, unfinished, stderr, lock,
                   filename, md, file_to, fs0, iters, moves>>

\* A mutant of OsRename: an OSError of os.rename is taken as one more collision
\* and the next candidate is tried.
OsRename_retries(w) ==
    /\ pc[w] = "os_rename"
    /\ IF os_rename_fails(fs, filename[w], file_to[w])
       THEN /\ retry_count' = [retry_count EXCEPT ![w] = @ + 1]
            /\ pc' = [pc EXCEPT ![w] = "generate_name"]
            /\ UNCHANGED <<fs, renamed, moves>>
       ELSE /\ fs' = os_rename(fs, filename[w], file_to[w])
            /\ moves' = Append(moves, [pass |-> pass, from |-> filename[w], to |-> file_to[w],
                                       exif |-> md[w], onto |-> file_to[w] \in DOMAIN fs])
            /\ renamed' = [renamed EXCEPT ![w] = TRUE]
            /\ pc' = [pc EXCEPT ![w] = "return"]
            /\ UNCHANGED retry_count
    /\ UNCHANGED <<env, main, queue, unfinished, exception_q, stderr, lock, filename, md,
                   file_to, fs0, iters, log>>

\* try: os.rename(file_from, file_to); renamed = True   except OSError: raise
OsRename(w) ==
    /\ pc[w] = "os_rename"
    /\ IF os_rename_fails(fs, filename[w], file_to[w])
       THEN /\ Catch(w, "OSError")
            /\ UNCHANGED <<fs, renamed, moves>>
       ELSE /\ fs' = os_rename(fs, filename[w], file_to[w])
            /\ moves' = Append(moves, [pass |-> pass, from |-> filename[w], to |-> file_to[w],
                                       exif |-> md[w], onto |-> file_to[w] \in DOMAIN fs])
            /\ renamed' = [renamed EXCEPT ![w] = TRUE]
            /\ pc' = [pc EXCEPT ![w] = "return"]
            /\ UNCHANGED <<exception_q, log>>
    /\ UNCHANGED <<env, main, queue, unfinished, stderr, lock, filename, md,
                   retry_count, file_to, fs0, iters>>

\* A mutant of Return: after a rename() that returned False the thread ends
\* instead of going on with the queue.
Return_stops(w) ==
    /\ pc[w] = "return"
    /\ log' = Append(log, Entry(w, IF renamed[w] THEN "True" ELSE "False"))
    /\ pc' = [pc EXCEPT ![w] = IF renamed[w] THEN "task_done" ELSE "exit"]
    /\ UNCHANGED <<fs, env, main, queue, unfinished, exception_q, stderr, lock,
                   filename, locals, moves>>

\* return renamed; process_file logs "Renamed" or "Failed to rename" and returns.
Return(w) ==
    /\ pc[w] = "return"
    /\ log' = Append(log, Entry(w, IF renamed[w] THEN "True" ELSE "False"))
    /\ pc' = [pc EXCEPT ![w] = "task_done"]
    /\ UNCHANGED <<fs, env, main, queue, unfinished, exception_q, stderr, lock,
                   filename, locals, moves>>

(***************************************************************************)
(* process_dir: the walk lists the files and puts them, then one sentinel  *)
(* per thread, on the queue; join waits for the queue's tasks; the errors  *)
(* are then written to stderr.                                             *)
(***************************************************************************)
\* The sequences that hold each element of S once.
Perms(S) ==
    {s \in [1..Cardinality(S) -> S] : \A i, j \in 1..Cardinality(S) : s[i] = s[j] => i = j}

\* The canonical names of RecPhoto, by retry count.
Candidates == [r \in 0..(max_rename + 2) |-> generate_name(RecPhoto, r, {}).v]

Candidate(r) == Candidates[r]

\* The position of a path in a listing sorted by candidate number.
Rank(p) ==
    IF \E r \in DOMAIN Candidates : p.name = Candidates[r]
    THEN 1 + CHOOSE r \in DOMAIN Candidates : p.name = Candidates[r]
    ELSE 0

Sorted(S) ==
    LET rank == [p \in S |-> Rank(p)]
    IN  [i \in 1..Cardinality(S) |->
            CHOOSE p \in S : Cardinality({q \in S : rank[q] < rank[p]}) = i - 1]

Reversed(s) == [i \in 1..Len(s) |-> s[Len(s) + 1 - i]]

\* The orders in which os.walk may yield the files: any order for a small
\* directory, the sorted order and its reverse for a larger one.
WalkOrders(f) ==
    IF Cardinality(DOMAIN f) <= MaxShuffle THEN Perms(DOMAIN f)
    ELSE {Sorted(DOMAIN f), Reversed(Sorted(DOMAIN f))}

Walk ==
    /\ main = "walk"
    /\ \E order \in WalkOrders(fs) :
          queue' = order \o [i \in 1..Cardinality(Workers) |-> SENTINEL]
    /\ unfinished' = Cardinality(DOMAIN fs) + Cardinality(Workers)
    /\ pc' = [w \in Workers |-> "get"]
    /\ main' = "join"
    /\ listed' = fs
    /\ UNCHANGED <<fs, fast_exif, pass, pending, call, result, exception_q, stderr, lock,
                   filename,
                   locals, moves, log>>

\* file_queue.join()
Join ==
    /\ main = "join"
    /\ unfinished = 0
    /\ main' = "report"
    /\ UNCHANGED <<fs, env, queue, unfinished, exception_q, stderr, lock, pc, filename,
                   locals, moves, log>>

\* if not exception_q.empty(): ... write every error to stderr
Report ==
    /\ main = "report"
    /\ stderr' = stderr \o exception_q
    /\ exception_q' = <<>>
    /\ main' = "done"
    /\ UNCHANGED <<fs, env, queue, unfinished, lock, pc, filename, locals, moves, log>>

\* The program is run again over the same directory, with new threads.
Rerun ==
    /\ main = "done"
    /\ pass < MaxPass
    /\ pass' = pass + 1
    /\ main' = "walk"
    /\ pc' = [w \in Workers |-> "start"]
    /\ UNCHANGED <<fs, fast_exif, listed, queue, pending, unfinished, exception_q, stderr,
                   lock, filename, locals, moves, log, call, result>>

(***************************************************************************)
(* The directories the model starts from.                                  *)
(***************************************************************************)
OriginalNames == {<<"a">>, <<"b">>}

SmallFiles == {Photo1, Photo1Copy, Photo2, Photo3, Live1, Pdf, BadDate, NoDate,
               Unreadable, Slash, OddType}

\* The directories of one or two files, named from names and drawn from files, in d.
DirsOf(d, names, files) ==
    {(Path(d, n1) :> f1) : n1 \in names, f1 \in files}
    \cup {(Path(d, n1) :> f1) @@ (Path(d, n2) :> f2) :
             <<n1, n2>> \in {nn \in names \X names : nn[1] # nn[2]},
             <<f1, f2>> \in files \X files}

\* The working directory holds any one or two of the files, under their
\* original names or the first canonical name of the photos; a subdirectory
\* holds photos and a live-photo video under their original names.
SmallDirs ==
    DirsOf(CWD, OriginalNames \cup {Candidate(0)}, SmallFiles)
    \cup DirsOf(SUB, OriginalNames, {Photo1, Photo2, Live1})

\* A photo in a directory where the first k candidate names are taken by
\* other photos of the same second and camera.
Crowded(d, k) ==
    [p \in {Path(d, <<"a">>)} \cup {Path(d, Candidate(r)) : r \in 0..(k - 1)} |->
        IF p.name = <<"a">> THEN Photo2 ELSE Burst(Rank(p) - 1)]

CrowdedDirs == {Crowded(CWD, k) : k \in {max_rename + 1, max_rename + 2}}

\* The state after process_dir has created a pool of n threads over one of dirs.
InitWith(dirs, n) ==
    /\ fs \in dirs
    /\ fast_exif \in BOOLEAN
    /\ pass = 1
    /\ main = "walk"
    /\ queue = <<>>
    /\ pending = <<>>
    /\ unfinished = 0
    /\ exception_q = <<>>
    /\ stderr = <<>>
    /\ lock = 0
    /\ pc = [w \in 1..n |-> "start"]
    /\ filename = [w \in 1..n |-> NoPath]
    /\ md = [w \in 1..n |-> NoMeta]
    /\ retry_count = [w \in 1..n |-> 0]
    /\ renamed = [w \in 1..n |-> FALSE]
    /\ file_to = [w \in 1..n |-> NoPath]
    /\ listed = fs
    /\ fs0 = [w \in 1..n |-> fs]
    /\ iters = [w \in 1..n |-> 0]
    /\ moves = <<>>
    /\ log = <<>>
    /\ call = NoCall
    /\ result = NoResult

\* The files are processed one after another: a pool of one thread.
Init == InitWith(SmallDirs \cup CrowdedDirs, 1)

Next ==
    \/ Walk
    \/ Join
    \/ Report
    \/ Rerun
    \/ \E w \in Workers : QueueGet(w)
    \/ \E w \in Workers : LockAcquire(w)
    \/ \E w \in Workers : ExiftoolCall(w)
    \/ \E w \in Workers : PyexifinfoCall(w)
    \/ \E w \in Workers : ProcessFile(w)
    \/ \E w \in Workers : GenerateName(w)
    \/ \E w \in Workers : Exists(w)
    \/ \E w \in Workers : Cmp(w)
    \/ \E w \in Workers : OsRename(w)
    \/ \E w \in Workers : Return(w)
    \/ \E w \in Workers : TaskDone(w)

Spec == Init /\ [][Next]_vars

(***************************************************************************)
(* The program run over a directory of two files, then run again over the  *)
(* same directory as it was at first: between the two runs the files are   *)
(* put back, and the walk of either run takes the two files in any order.  *)
(***************************************************************************)
TwoFileDirs == {d \in SmallDirs : Cardinality(DOMAIN d) = 2}

InitOrders == InitWith(TwoFileDirs, 1)

\* The directory is put back to what the first walk listed, and the program
\* is run again, with new threads.
Restore ==
    /\ main = "done"
    /\ pass < MaxPass
    /\ pass' = pass + 1
    /\ fs' = listed
    /\ main' = "walk"
    /\ pc' = [w \in Workers |-> "start"]
    /\ UNCHANGED <<fast_exif, listed, queue, pending, unfinished, exception_q, stderr,
                   lock, filename, locals, moves, log, call, result>>

NextOrders ==
    \/ Walk
    \/ Join
    \/ Report
    \/ Restore
    \/ \E w \in Workers : QueueGet(w)
    \/ \E w \in Workers : LockAcquire(w)
    \/ \E w \in Workers : ExiftoolCall(w)
    \/ \E w \in Workers : PyexifinfoCall(w)
    \/ \E w \in Workers : ProcessFile(w)
    \/ \E w \in Workers : GenerateName(w)
    \/ \E w \in Workers : Exists(w)
    \/ \E w \in Workers : Cmp(w)
    \/ \E w \in Workers : OsRename(w)
    \/ \E w \in Workers : Return(w)
    \/ \E w \in Workers : TaskDone(w)

SpecOrders == InitOrders /\ [][NextOrders]_vars

(***************************************************************************)
(* One run of process_dir with a pool of PoolSize threads (MAX_THREADS in  *)
(* the code), the threads being scheduled fairly.                          *)
(***************************************************************************)
PoolFiles == {Photo1, Photo2, BadDate, Unreadable, Slash}

\* One of these files in the working directory, or Photo1 as 'a' with one of
\* them as 'b'; the walk takes two files in either order.
PoolDirs ==
    {d \in DirsOf(CWD, OriginalNames, PoolFiles) :
        Cardinality(DOMAIN d) = 2 => d[Path(CWD, <<"a">>)] = Photo1}

InitPool == InitWith(PoolDirs, PoolSize)

NextPool ==
    \/ Walk
    \/ Join
    \/ Report
    \/ \E w \in Workers : QueueGet(w)
    \/ \E w \in Workers : LockAcquire(w)
    \/ \E w \in Workers : ExiftoolCall(w)
    \/ \E w \in Workers : PyexifinfoCall(w)
    \/ \E w \in Workers : ProcessFile(w)
    \/ \E w \in Workers : GenerateName(w)
    \/ \E w \in Workers : Exists(w)
    \/ \E w \in Workers : Cmp(w)
    \/ \E w \in Workers : OsRename(w)
    \/ \E w \in Workers : Return(w)
    \/ \E w \in Workers : TaskDone(w)

\* A step of thread w.
Step(w) ==
    /\ w \in Workers
    /\ \/ QueueGet(w)
       \/ LockAcquire(w)
       \/ ExiftoolCall(w)
       \/ PyexifinfoCall(w)
       \/ ProcessFile(w)
       \/ GenerateName(w)
       \/ Exists(w)
       \/ Cmp(w)
       \/ OsRename(w)
       \/ Return(w)
       \/ TaskDone(w)

\* The main thread and every Renamer thread get to run.
Fairness ==
    /\ WF_vars(Walk \/ Join \/ Report)
    /\ \A w \in 1..PoolSize : WF_vars(Step(w))

SpecPool == InitPool /\ [][NextPool]_vars

FairPool == SpecPool /\ Fairness

(***************************************************************************)
(* The pool of threads over the small directories, and one thread over the *)
(* crowded directories, in which rename uses up its retries.               *)
(***************************************************************************)
InitCrowd ==
    \/ InitWith(PoolDirs, PoolSize)
    \/ InitWith(CrowdedDirs, 1)

SpecCrowd == InitCrowd /\ [][NextPool]_vars

(***************************************************************************)
(* process_dir step by step: the threads are started, then the main thread *)
(* puts the walked files and the sentinels on the bounded queue one at a   *)
(* time, waiting while the queue is full, while the threads take items.    *)
(***************************************************************************)
\* The capacity of file_queue (32 in the code).
QueueSize == 1

\* Directories of no file, of one file and of two files in the working
\* directory: fewer files than threads, and more than the queue holds.
QueueDirs ==
    {<<>>,
     Path(CWD, <<"a">>) :> Photo1,
     Path(CWD, <<"a">>) :> Unreadable,
     Path(CWD, Candidate(0)) :> Photo1,
     (Path(CWD, <<"a">>) :> Photo1) @@ (Path(CWD, <<"b">>) :> Unreadable)}

InitQueue == InitWith(QueueDirs, PoolSize)

\* for thread in threads: thread.start(), and os.walk lists the directory.
StartThreads ==
    /\ main = "walk"
    /\ \E order \in WalkOrders(fs) :
          pending' = order \o [i \in 1..Cardinality(Workers) |-> SENTINEL]
    /\ pc' = [w \in Workers |-> "get"]
    /\ main' = "put"
    /\ listed' = fs
    /\ UNCHANGED <<fs, fast_exif, pass, call, result, queue, unfinished, exception_q,
                   stderr, lock, filename, locals, moves, log>>

\* file_queue.put(path) and file_queue.close(): put waits while the queue is full.
Put ==
    /\ main = "put"
    /\ Len(queue) < QueueSize
    /\ queue' = Append(queue, Head(pending))
    /\ pending' = Tail(pending)
    /\ unfinished' = unfinished + 1
    /\ main' = IF Tail(pending) = <<>> THEN "join" ELSE "put"
    /\ UNCHANGED <<fs, fast_exif, pass, listed, call, result, exception_q, stderr, lock,
                   pc, filename, locals, moves, log>>

NextQueue ==
    \/ StartThreads
    \/ Put
    \/ Join
    \/ Report
    \/ \E w \in Workers : QueueGet(w)
    \/ \E w \in Workers : LockAcquire(w)
    \/ \E w \in Workers : ExiftoolCall(w)
    \/ \E w \in Workers : PyexifinfoCall(w)
    \/ \E w \in Workers : ProcessFile(w)
    \/ \E w \in Workers : GenerateName(w)
    \/ \E w \in Workers : Exists(w)
    \/ \E w \in Workers : Cmp(w)
    \/ \E w \in Workers : OsRename(w)
    \/ \E w \in Workers : Return(w)
    \/ \E w \in Workers : TaskDone(w)

\* The main thread and every Renamer thread get to run.
FairnessQueue ==
    /\ WF_vars(StartThreads \/ Put \/ Join \/ Report)
    /\ \A w \in 1..PoolSize : WF_vars(Step(w))

SpecQueue == InitQueue /\ [][NextQueue]_vars

FairQueue == SpecQueue /\ FairnessQueue
(***************************************************************************)
(* Claims about rename and the pipeline, checked under Spec.               *)
(***************************************************************************)
\* The worker is inside rename().
InRename(w) == pc[w] \in {"generate_name", "exists", "cmp", "os_rename", "return"}

\* The target rename() computes for retry count r, in the filesystem it was called in.
TargetAt(w, r) ==
    JoinPath(filename[w].dir, generate_name(md[w], r, Listing(fs0[w], CWD)).v)

SameBytes(f, p, q) == p \in DOMAIN f /\ q \in DOMAIN f /\ f[p].bytes = f[q].bytes

\* No os.rename of this run has moved the file the worker holds.
NoMoveBy(w) ==
    \A i \in DOMAIN moves : ~(moves[i].pass = pass /\ moves[i].from = filename[w])

\* Every file the walk listed has been through process_file in this run.
AllProcessed ==
    \A p \in DOMAIN listed : \E i \in DOMAIN log : log[i].pass = pass /\ log[i].file = p

\* C1 (as claimed): when a directory holds two files of different content under
\* their original names and both map to the same canonical name, then after
\* rename() has run on both, both contents exist, the first processed under the
\* name with the empty disambiguator and the second under the name with '-1'.
C1_Original ==
    (/\ main = "done"
     /\ pass = 1
     /\ Cardinality(DOMAIN listed) = 2
     /\ \A p \in DOMAIN listed :
           /\ p.name \in OriginalNames
           /\ Extract(listed[p]).exc = ""
           /\ generate_name(Extract(listed[p]).rec, 0, {}) = Some(Candidate(0))
     /\ \A p, q \in DOMAIN listed : p # q => listed[p].bytes # listed[q].bytes)
    => /\ Len(log) = 2
       /\ fs = (Path(log[1].file.dir, Candidate(0)) :> listed[log[1].file])
               @@ (Path(log[2].file.dir, Candidate(1)) :> listed[log[2].file])

\* C2 (as claimed): when the 21 candidate targets with the disambiguators '',
\* '-1', ..., '-20' all exist and all differ from the source in content (here:
\* in bytes and in size), rename() returns False and the source keeps its name.
C2_Original ==
    \A w \in Workers :
        (/\ pc[w] = "return"
         /\ \A r \in 0..max_rename :
               /\ TargetAt(w, r) \in DOMAIN fs0[w]
               /\ fs0[w][TargetAt(w, r)].bytes # fs0[w][filename[w]].bytes
               /\ fs0[w][TargetAt(w, r)].size # fs0[w][filename[w]].size)
        => ~renamed[w] /\ filename[w] \in DOMAIN fs

\* C3 (as claimed, for directories whose files all start under original names):
\* a second complete pass over the directory performs no os.rename.
C3_Original ==
    (\A i \in DOMAIN log : log[i].pass = 1 => log[i].file.name \in OriginalNames)
    => \A i \in DOMAIN moves : moves[i].pass = 1

\* C4: when the candidate target exists and has the bytes of the source,
\* rename() ends there with success: no candidate with the source's bytes is
\* passed over, and at the return os.rename was not called, the filesystem is
\* the one rename() was called in, and the retry counter was not incremented in
\* that iteration of the loop.
C4_AlreadyIdentical ==
    \A w \in Workers :
        /\ InRename(w) =>
              \A r \in 0..(retry_count[w] - 1) :
                  ~SameBytes(fs0[w], filename[w], TargetAt(w, r))
        /\ (pc[w] = "return" /\ SameBytes(fs0[w], filename[w], file_to[w])) =>
              /\ renamed[w]
              /\ fs = fs0[w]
              /\ NoMoveBy(w)
              /\ iters[w] = retry_count[w] + 1

\* C4's case: rename() returns at a target that is another path than the source
\* and holds the same bytes.
C4_Witness ==
    \E w \in Workers :
        /\ pc[w] = "return"
        /\ file_to[w] # filename[w]
        /\ SameBytes(fs0[w], filename[w], file_to[w])
        /\ renamed[w]

\* C5: when rename() returns False, the call has renamed, created, overwritten
\* or removed no file, and the worker goes on with the queue: its thread ends
\* only when every listed file has been through process_file.
C5_ExhaustedUntouched ==
    \A w \in Workers :
        /\ (pc[w] = "return" /\ ~renamed[w]) =>
              /\ fs = fs0[w]
              /\ NoMoveBy(w)
              /\ filename[w] \in DOMAIN fs
        /\ pc[w] = "exit" => AllProcessed

\* C5's case: a rename() that returned False, and the file processed after it.
C5_Witness ==
    \E i \in DOMAIN log :
        /\ log[i].result = "False"
        /\ i + 1 \in DOMAIN log
        /\ log[i + 1].pass = log[i].pass

\* C8 (as claimed): no file is renamed under a record in which no date tag is
\* present and usable.
C8_Original ==
    \A i \in DOMAIN moves : get_date(moves[i].exif).ok

\* The worker has just caught exception e raised for the file it holds.
Caught(w, e) ==
    /\ pc[w] = "task_done"
    /\ filename[w] # SENTINEL
    /\ log # <<>>
    /\ log[Len(log)] = Entry(w, "raised")
    /\ exception_q # <<>>
    /\ exception_q[Len(exception_q)] = [exc |-> e, file |-> filename[w]]

\* C10: when os.rename raises, rename() makes no further attempt: a candidate is
\* passed over only if it exists; and once the OSError has reached the caller,
\* the target was not created, the source keeps its name, the filesystem is the
\* one rename() was called in and the retry counter was not incremented.
C10_FatalMoveError ==
    \A w \in Workers :
        /\ InRename(w) =>
              \A r \in 0..(retry_count[w] - 1) : TargetAt(w, r) \in DOMAIN fs0[w]
        /\ Caught(w, "OSError") =>
              /\ ~renamed[w]
              /\ file_to[w] \notin DOMAIN fs
              /\ filename[w] \in DOMAIN fs
              /\ fs = fs0[w]
              /\ iters[w] = retry_count[w] + 1

\* C10's case: an OSError of os.rename has been caught by the worker's loop.
C10_Witness ==
    \E w \in Workers : Caught(w, "OSError") /\ file_to[w] \notin DOMAIN fs0[w]

(***************************************************************************)
(* Claims about the batch, checked under FairPool.                         *)
(***************************************************************************)
\* Every error raised in this run is on the exception queue or was written to stderr.
AllCollected ==
    \A i \in DOMAIN log :
        log[i].result = "raised" =>
            \E e \in {exception_q[j] : j \in DOMAIN exception_q} \cup {stderr[j] : j \in DOMAIN stderr} :
                e.file = log[i].file

\* Every error raised in this run was written to stderr.
AllReported ==
    /\ exception_q = <<>>
    /\ \A i \in DOMAIN log :
           log[i].result = "raised" => \E j \in DOMAIN stderr : stderr[j].file = log[i].file

\* C9: a failure of one file (the extraction raises, the date is malformed, the
\* retries are exhausted, os.rename raises) ends no thread and does not stop the
\* batch: a thread ends only after every listed file was taken from the queue,
\* every raised error is collected, and once the files are on the queue the
\* batch comes to its end with every listed file passed to process_file and
\* every raised error written to stderr.
C9_FailureIsolation ==
    /\ [](\A w \in Workers : pc[w] = "exit" =>
              \A i \in DOMAIN queue : queue[i] = SENTINEL)
    /\ []AllCollected
    /\ (main = "join") ~> (main = "done" /\ AllProcessed /\ AllReported)

\* C9's case: the batch is over, a file whose processing raised was followed by
\* another file that was renamed, and the error is on stderr.
C9_Witness ==
    /\ main = "done"
    /\ stderr # <<>>
    /\ \E i, j \in DOMAIN log :
           /\ i < j
           /\ log[i].result = "raised"
           /\ log[j].result = "True"
           /\ log[j].file # log[i].file

(***************************************************************************)
(* generate_name on its own: the record, the retry count and the listing   *)
(* of the working directory are drawn from bounded sets, and the name is   *)
(* computed in that directory and in an empty one.                         *)
(***************************************************************************)
\* The largest retry count generate_name is called with on its own.
MaxRetryArg == 1

\* The dictionaries holding, for each tag, one of its values or nothing (<<>> in
\* choice[tag] stands for the tag being absent, <<"">> for the empty string).
Absent == <<>>

Empty == <<"">>

Dict(choice) ==
    [t \in {u \in DOMAIN choice : choice[u] # Absent} |->
        IF choice[t] = Empty THEN <<>> ELSE choice[t]]

Sentinel == <<"0", "0", "0", "0", ":", "0", "0", ":", "0", "0", " ",
              "0", "0", ":", "0", "0", ":", "0", "0">>

NotADate == <<"n", "o", "t", " ", "a", " ", "d", "a", "t", "e">>

West == <<"-", "0", "5", ":", "0", "0">>

MimeValues ==
    {Absent, Empty, image, image \o <<"/", "j", "p", "e", "g">>,
     image \o <<"s", "/", "x">>,
     video \o <<"/", "q", "u", "i", "c", "k", "t", "i", "m", "e">>,
     <<"a", "p", "p", "l", "i", "c", "a", "t", "i", "o", "n", "/", "p", "d", "f">>}

Records ==
    {Dict(("File:MIMEType" :> mime)
          @@ ("File:FileTypeExtension" :> ext)
          @@ ("EXIF:Model" :> model)
          @@ ("EXIF:DateTimeOriginal" :> original)
          @@ ("QuickTime:CreationDate" :> creation)
          @@ ("QuickTime:MediaCreateDate" :> media)
          @@ ("File:FileModifyDate" :> modify)) :
        mime \in MimeValues,
        ext \in {Absent, JPG, MOV},
        model \in {Absent, <<"i", " ", "6">>},
        original \in {Absent, Empty, Sentinel, Date0, NotADate},
        creation \in {Absent, Date0 \o Zone0, Date0 \o West},
        media \in {Absent, Sentinel, Date1},
        modify \in {Absent, Date1 \o Zone0}}

Listings ==
    {{}, {Candidate(0)}, {Candidate(1)},
     {Candidate(0), IMG \o <<"_">> \o Strftime(ReplaceFirst(Date0, ":", "/", 2)) \o <<"_", "x", ".">> \o JPG}}

InitName ==
    /\ call \in [exif : Records, retry : 0..MaxRetryArg, ls : Listings]
    /\ result = NoResult
    /\ fs = <<>>
    /\ fast_exif = TRUE
    /\ pass = 0
    /\ main = "generate_name"
    /\ queue = <<>>
    /\ pending = <<>>
    /\ unfinished = 0
    /\ exception_q = <<>>
    /\ stderr = <<>>
    /\ lock = 0
    /\ pc = <<>>
    /\ filename = <<>>
    /\ md = <<>>
    /\ retry_count = <<>>
    /\ renamed = <<>>
    /\ file_to = <<>>
    /\ listed = <<>>
    /\ fs0 = <<>>
    /\ iters = <<>>
    /\ moves = <<>>
    /\ log = <<>>

\* generate_name(exif, retry) run in the directory listed and in an empty one.
CallGenerateName ==
    /\ main = "generate_name"
    /\ result' = [here      |-> generate_name(call.exif, call.retry, call.ls),
                  elsewhere |-> generate_name(call.exif, call.retry, {})]
    /\ main' = "returned"
    /\ UNCHANGED <<fs, fast_exif, pass, listed, queue, pending, unfinished, exception_q,
                   stderr, lock, pc, filename, locals, moves, log, call>>

NextName == CallGenerateName

SpecName == InitName /\ [][NextName]_vars

(***************************************************************************)
(* Claims about generate_name, checked under SpecName.                     *)
(***************************************************************************)
\* The part of File:MIMEType before '/', or <<>> when the tag is absent or empty.
TopLevel(exif) ==
    IF Truthy(DictGet(exif, "File:MIMEType"))
    THEN SplitFirst(exif["File:MIMEType"], "/")
    ELSE <<>>

\* name is the name of a JPG of the listing that begins with IMG, with the
\* extension replaced by MOV.
CounterpartOf(name, ls) ==
    \E n \in ls : /\ StartsWith(n, IMG \o <<"_">>)
                  /\ EndsWith(n, <<".">> \o JPG)
                  /\ name = SplitextRoot(n) \o <<".">> \o MOV

Usable(exif) ==
    {i \in DOMAIN DateTags :
        /\ DateTags[i] \in DOMAIN exif
        /\ exif[DateTags[i]] # <<>>
        /\ ~StartsWith(exif[DateTags[i]], <<"0", "0", "0", "0">>)}

\* The date text made of the value of tag number i of exif.
DateFrom(exif, i) == Strftime(ReplaceFirst(exif[DateTags[i]], ":", "/", 2))

\* C11: get_date uses the value of the first of the four tags, in their order,
\* that is present, non-empty and does not begin with '0000': with no such tag
\* it returns None and raises nothing; otherwise the date is the one of that
\* first tag (or the ValueError of that tag's text), whatever the later tags
\* hold, and it is the date of the name generate_name returns.
C11_TimestampSelection ==
    main = "returned" =>
        LET exif == call.exif
            date == get_date(exif)
        IN  IF Usable(exif) = {}
            THEN date = None
            ELSE LET first == CHOOSE i \in Usable(exif) : \A j \in Usable(exif) : i <= j
                 IN  /\ date.exc \in {"", "ValueError"}
                     /\ date.exc = "ValueError" =>
                            ~Parseable(ReplaceFirst(exif[DateTags[first]], ":", "/", 2))
                     /\ date.exc = "" => date = Some(DateFrom(exif, first))
                     /\ (date.ok /\ result.elsewhere.ok) =>
                            \E prefix \in {IMG, VID} :
                                StartsWith(result.elsewhere.v,
                                           prefix \o <<"_">> \o DateFrom(exif, first))

\* C11's case: the first and the third tag hold the all-zero sentinel, the
\* second is absent, and the name carries the date of the fourth.
C11_Witness ==
    /\ main = "returned"
    /\ DictGet(call.exif, "EXIF:DateTimeOriginal") = Some(Sentinel)
    /\ "QuickTime:CreationDate" \notin DOMAIN call.exif
    /\ DictGet(call.exif, "QuickTime:MediaCreateDate") = Some(Sentinel)
    /\ Usable(call.exif) = {4}
    /\ result.elsewhere.ok
    /\ get_date(call.exif) = Some(DateFrom(call.exif, 4))

(***************************************************************************)
(* Further claims about rename and the pipeline, checked under Spec.       *)
(***************************************************************************)
\* The characters of a string.
Chars(s) == {s[i] : i \in DOMAIN s}

\* C12 (as claimed): the model segment slugify returns holds no path separator
\* and no space, and the target rename() computes is in the directory of the
\* source file.
C12_Original ==
    \A w \in Workers :
        pc[w] \in {"exists", "cmp", "os_rename", "return"} =>
            /\ "/" \notin Chars(get_model(md[w]))
            /\ " " \notin Chars(get_model(md[w]))
            /\ file_to[w].dir = filename[w].dir

\* C13 (as claimed): for a file whose File:MIMEType is absent or of a top-level
\* type other than image and video, process_file performs no rename, raises
\* nothing and puts nothing on the exception queue: it ends as skipped.
C13_Original ==
    \A w \in Workers :
        (md[w] # NoMeta /\ TopLevel(md[w]) \notin {image, video}) =>
            /\ pc[w] \in {"process_file", "task_done"}
            /\ pc[w] = "task_done" => log[Len(log)] = Entry(w, "skipped")
            /\ \A i \in DOMAIN exception_q : exception_q[i].file # filename[w]

(***************************************************************************)
(* Claims about the order of the files, checked under SpecOrders.          *)
(***************************************************************************)
\* The filesystem f after the os.rename calls of run k, from the i-th on.
RECURSIVE Replay(_, _, _)
Replay(f, k, i) ==
    IF i > Len(moves) THEN f
    ELSE IF moves[i].pass = k THEN Replay(os_rename(f, moves[i].from, moves[i].to), k, i + 1)
    ELSE Replay(f, k, i + 1)

\* The files run k processed, in the order it took them.
OrderOf(k) ==
    LET idx == {i \in DOMAIN log : log[i].pass = k}
    IN  [n \in 1..Cardinality(idx) |->
            log[CHOOSE i \in idx : Cardinality({j \in idx : j < i}) = n - 1].file]

\* The name generate_name gives the file at path p of f at first, in an empty
\* working directory; None when the extraction or the computation fails.
FirstName(f, p) ==
    IF Extract(f[p]).exc # "" THEN None
    ELSE LET n == generate_name(Extract(f[p]).rec, 0, {})
         IN  IF n.ok THEN n ELSE None

\* Two files compete for a name: both get the same first canonical name, or one
\* is stored under a name generate_name can give, or one has the extension MOV.
Compete(f, p, q) ==
    \/ FirstName(f, p).ok /\ FirstName(f, p) = FirstName(f, q)
    \/ p.name \notin OriginalNames
    \/ q.name \notin OriginalNames
    \/ \E x \in {p, q} :
           /\ Extract(f[x]).exc = ""
           /\ DictGet(Extract(f[x]).rec, "File:FileTypeExtension") = Some(MOV)

\* C14 (as claimed): the two files of a directory processed in one order and
\* in the other leave the same filesystem.
C14_Original ==
    (main = "done" /\ pass > 1) => fs = Replay(listed, 1, 1)

\* C14 (amended): two files that do not compete for a name, processed in one
\* order and in the other, leave the same filesystem.
C14_CommuteUnlessCompeting ==
    (/\ main = "done"
     /\ pass > 1
     /\ \A p, q \in DOMAIN listed : p # q => ~Compete(listed, p, q))
    => fs = Replay(listed, 1, 1)

\* C14's case: two files that do not compete were both renamed, in the second
\* run in the other order than in the first.
C14_Witness ==
    /\ main = "done"
    /\ pass = 2
    /\ \A p, q \in DOMAIN listed : p # q => ~Compete(listed, p, q)
    /\ Len(OrderOf(1)) = 2
    /\ OrderOf(2) = Reversed(OrderOf(1))
    /\ Cardinality({i \in DOMAIN moves : moves[i].pass = 1}) = 2
    /\ Cardinality({i \in DOMAIN moves : moves[i].pass = 2}) = 2

(***************************************************************************)
(* Claims about the pool of threads, checked under SpecPool and FairPool.  *)
(***************************************************************************)
\* The contents of the files of f.
Contents(f) == {f[p].bytes : p \in DOMAIN f}

\* C15 (as claimed): with several threads renaming files of one directory,
\* os.rename is never applied to a target that exists at the moment of the
\* move, and after the batch the directory holds as many files, with the same
\* contents, as before it.
C15_Original ==
    /\ \A i \in DOMAIN moves : ~moves[i].onto
    /\ main = "done" =>
           /\ Cardinality(DOMAIN fs) = Cardinality(DOMAIN listed)
           /\ Contents(fs) = Contents(listed)

(***************************************************************************)
(* Claims about the queue, checked under FairQueue.                        *)
(***************************************************************************)
\* How many times item x is in sequence s.
Count(s, x) == Cardinality({i \in DOMAIN s : s[i] = x})

\* The threads that hold item x: taken from the queue, task_done not yet called.
Holders(x) == {w \in Workers : filename[w] = x}

\* How many process_file calls of this run have ended for path p.
Processed(p) == Cardinality({i \in DOMAIN log : log[i].pass = pass /\ log[i].file = p})

\* C16: once the threads are started, every walked file is in one place only
\* (still to put, on the queue, or held by one thread) and is processed at most
\* once; there are as many sentinels as threads still running; the queue never
\* holds more than its capacity; the count of unfinished tasks is the number of
\* items on the queue or held by a thread (task_done once per item taken); and
\* the batch comes to its end: file_queue.join() returns with the queue empty,
\* every thread ended after one sentinel and every file processed exactly once.
C16_QueueShutdown ==
    /\ [](main # "walk" =>
            /\ \A p \in DOMAIN listed :
                  /\ Count(pending, p) + Count(queue, p) + Cardinality(Holders(p))
                        + (IF Holders(p) = {} THEN Processed(p) ELSE 0) = 1
                  /\ Processed(p) <= 1
            /\ Count(pending, SENTINEL) + Count(queue, SENTINEL)
                  + Cardinality(Holders(SENTINEL))
                  = Cardinality({w \in Workers : pc[w] # "exit"})
            /\ Len(queue) <= QueueSize
            /\ unfinished = Len(queue) + Cardinality({w \in Workers : filename[w] # NoPath}))
    /\ [](main \in {"report", "done"} =>
            /\ queue = <<>>
            /\ pending = <<>>
            /\ \A w \in Workers : pc[w] = "exit"
            /\ \A p \in DOMAIN listed : Processed(p) = 1)
    /\ (main = "put") ~> (main = "done")

\* C16's case: a batch of more files than the queue holds has come to its end.
C16_Witness ==
    /\ main = "done"
    /\ Cardinality(DOMAIN listed) > QueueSize
    /\ \A w \in Workers : pc[w] = "exit"
    /\ Len(log) = Cardinality(DOMAIN listed)

(***************************************************************************)
(* Claims about the pool of threads, checked under FairPool.               *)
(***************************************************************************)
\* The threads inside exiftool_handle.get_metadata.
InExiftool == {w \in Workers : pc[w] = "exiftool"}

\* C17: with the shared exiftool handle, at most one thread is inside
\* exiftool_handle.get_metadata; a thread holds the lock exactly while it is
\* inside that call, so not during the rename and not after the call raised;
\* and a thread that calls get_metadata gets past it.
C17_ExtractorExclusion ==
    /\ [](fast_exif =>
            /\ Cardinality(InExiftool) <= 1
            /\ \A w \in Workers : lock = w <=> pc[w] = "exiftool")
    /\ [](~fast_exif => lock = 0 /\ InExiftool = {})
    /\ \A w \in 1..PoolSize :
           (fast_exif /\ pc[w] = "get_metadata") ~> (pc[w] # "get_metadata")

\* C17's case: the call of one thread raised, the thread is past it, and
\* another thread is inside the call with the lock.
C17_Witness ==
    /\ fast_exif
    /\ \E w, v \in Workers :
           /\ w # v
           /\ pc[w] = "task_done"
           /\ log # <<>>
           /\ log[Len(log)] = Entry(w, "raised")
           /\ md[w] = NoMeta
           /\ pc[v] = "exiftool"
           /\ lock = v

(***************************************************************************)
(* Claims about the loop of rename, checked under SpecCrowd.               *)
(***************************************************************************)
\* C18: a call of rename begins at most max_rename + 2 iterations of its loop
\* and its retry counter never exceeds max_rename + 1; an iteration that does
\* not end the loop adds one to the counter, so the counter is the number of
\* iterations ended; and inside the loop the thread always has a next step.
C18_LoopTerminates ==
    \A w \in Workers :
        /\ iters[w] <= max_rename + 2
        /\ retry_count[w] <= max_rename + 1
        /\ pc[w] = "generate_name" => iters[w] = retry_count[w]
        /\ pc[w] \in {"exists", "cmp", "os_rename", "return"} => iters[w] = retry_count[w] + 1
        /\ InRename(w) => ENABLED Step(w)

\* C18's case: a call of rename ended in its iteration max_rename + 2 without
\* a rename, every iteration before it having added one to the counter.
C18_Witness ==
    \E w \in Workers :
        /\ pc[w] = "return"
        /\ iters[w] = max_rename + 2
        /\ retry_count[w] = max_rename + 1
        /\ ~renamed[w]

(***************************************************************************)
(* A claim about check_for_live, checked under Spec.                       *)
(***************************************************************************)
\* C19 (as claimed): the name computed for a file with the extension MOV is
\* the one check_for_live gives when it looks for the JPG counterpart in the
\* directory of the file: the files of other directories do not matter.
C19_Original ==
    \A w \in Workers :
        (/\ pc[w] = "exists"
         /\ DictGet(md[w], "File:FileTypeExtension") = Some(MOV))
        => file_to[w] = JoinPath(filename[w].dir,
                                 generate_name(md[w], retry_count[w],
                                               Listing(fs, filename[w].dir)).v)

=============================================================================
